---- MODULE Spec2Model ----
(***************************************************************************)
(* taiki-ts-util: the dependency-injection container (container.ts), the   *)
(* Inject / Injectable decorators (src/di/di.ts) and the example classes   *)
(* TimeService and Consumer, as a state machine over the container         *)
(* objects, the heap of constructed instances and the installed getters.   *)
(***************************************************************************)
EXTENDS Integers, Sequences, FiniteSets, TLC

\* ------------------------------------------------------------------ bounds
\* Number of completed state-changing operations (stores, getter
\* installations, constructions) explored from the initial state.
MaxSteps == 2
\* Number of consecutive reads of one injected property that are counted.
MaxReads == 2
\* Number of recorded calls of one mock's getCurrentDate.
MaxCalls == 2

\* --------------------------------------------------------------- JS values
\* A JavaScript value: kind is the typeof-like tag, n the number / boolean /
\* heap address / day number, s the string contents.
Undefined == [kind |-> "undefined", n |-> 0, s |-> ""]
Null == [kind |-> "null", n |-> 0, s |-> ""]
False == [kind |-> "boolean", n |-> 0, s |-> ""]
True == [kind |-> "boolean", n |-> 1, s |-> ""]
Num(k) == [kind |-> "number", n |-> k, s |-> ""]
Str(x) == [kind |-> "string", n |-> 0, s |-> x]
\* A reference to the heap object at address i; identity is the address.
Ref(i) == [kind |-> "object", n |-> i, s |-> ""]
\* A Date object holding day number d (days since the epoch).
DateOf(d) == [kind |-> "date", n |-> d, s |-> ""]
\* Marks a key that is not an own property of the providers object.
Absent == [kind |-> "absent", n |-> 0, s |-> ""]

\* ToBoolean, as applied by `if (matchedProvider)`.
Truthy(v) ==
    CASE v.kind = "undefined" -> FALSE
      [] v.kind = "null" -> FALSE
      [] v.kind = "absent" -> FALSE
      [] v.kind = "boolean" -> v.n = 1
      [] v.kind = "number" -> v.n # 0
      [] v.kind = "string" -> v.s # ""
      [] OTHER -> TRUE

\* The === operator: same type and same value, same address for objects.
StrictEquals(a, b) == a.kind = b.kind /\ a.n = b.n /\ a.s = b.s

\* ------------------------------------------------------------------ tokens
\* Token strings a caller passes; "length" is an ordinary string to the API.
Tokens == {"timeService", "consumer", "length"}
\* Marks a class property on which Inject has not been applied.
NoToken == "-"

\* The two Container objects: the exported shared one and one made by
\* a caller with `new Container()`.
Global == "container"
Other == "other"
Containers == {Global, Other}

\* `private _providers: LooseObject = {}`
EmptyProviders == [t \in Tokens |-> Absent]

\* obj[key] on a providers object: undefined when the key is not present.
Prop(p, key) == IF key \in DOMAIN p /\ p[key] # Absent THEN p[key] ELSE Undefined

\* Object.keys(p): the own enumerable keys.
Keys(p) == {t \in DOMAIN p : p[t] # Absent}

\* ------------------------------------------------------------- lodash find
\* lodash isLength: a number that is a non-negative integer.
IsLength(v) == v.kind = "number" /\ v.n > -1

\* lodash isArrayLike(collection): collection.length is a valid length.
IsArrayLike(p) == IsLength(Prop(p, "length"))

\* The predicate `(_provider, key) => key === token`.
KeyMatches(key, token) == StrictEquals(key, Str(token))

\* Mutant of Find: the predicate ignores the key, so the first entry matches.
FindAnyEntry(p, token) ==
    IF Keys(p) = {} THEN Undefined ELSE p[CHOOSE k \in Keys(p) : TRUE]

\* find(this._providers, predicate): an array-like collection is scanned by
\* numeric index 0..length-1 (the predicate receives the index, a number);
\* any other object is scanned over its own keys (strings).
Find(p, token) ==
    IF IsArrayLike(p)
    THEN LET len == Prop(p, "length").n
             hits == {i \in 0..(len - 1) : KeyMatches(Num(i), token)}
         IN  IF hits = {} THEN Undefined ELSE Prop(p, ToString(CHOOSE i \in hits : TRUE))
    ELSE LET hits == {k \in Keys(p) : KeyMatches(Str(k), token)}
         IN  IF hits = {} THEN Undefined ELSE p[CHOOSE k \in hits : TRUE]

\* ------------------------------------------------------------------ errors
NoError == [name |-> "", msg |-> <<>>]
\* new Error(`No provider found for ${token}`)
ProviderNotFound(token) == [name |-> "Error", msg |-> <<"No provider found for ", token>>]
\* The TypeError of calling a method that the receiver does not have.
NotAFunction(method) == [name |-> "TypeError", msg |-> <<method, " is not a function">>]
\* The TypeError of a strict-mode assignment to an accessor property that
\* has no setter.
NoSetter == [name |-> "TypeError", msg |-> <<"Cannot set property which has only a getter">>]
\* The error a throwing constructor raises.
CtorError == [name |-> "CtorError", msg |-> <<"constructor failed">>]

Return(v) == [outcome |-> "return", value |-> v, err |-> NoError]
Throw(e) == [outcome |-> "throw", value |-> Undefined, err |-> e]

\* ------------------------------------------------------- Container.resolve
ResolveIn(p, token) ==
    LET matchedProvider == Find(p, token)
    IN  IF Truthy(matchedProvider)
        THEN Return(matchedProvider)
        ELSE Throw(ProviderNotFound(token))

\* Mutant of ResolveEffect: a resolve that finds an entry hands it out and
\* removes it.
ResolveEvicts(ps, c, token) ==
    IF ResolveIn(ps[c], token).outcome = "return"
    THEN [ps EXCEPT ![c][token] = Absent] ELSE ps

\* The _providers objects after c.resolve(token): the body of resolve reads
\* this._providers through find and has no assignment and no `new`.
ResolveEffect(ps, c, token) == ps

\* ------------------------------------------------------ classes and objects
\* Classes handed to reserve / Injectable / new: User (README), TimeService
\* and Consumer (the example module), a class whose constructor throws, and a
\* class whose constructor only reads its injected property.
Classes == {"User", "TimeService", "Consumer", "Thrower", "Reader"}
\* Classes that declare a property slot Inject can decorate.
InjectingClasses == {"Consumer", "Reader"}
\* Object literals a test passes as userValue: a mock whose getCurrentDate
\* returns the string '2020-08-12', and one whose getCurrentDate returns a Date.
MockKinds == {"MockStr", "MockDate"}

\* A heap object: its class, the Consumer's currentDate field and, for a
\* mock, the argument lists of the calls of getCurrentDate.
Obj(cls) == [cls |-> cls, currentDate |-> Undefined, calls |-> <<>>]

\* Day numbers Date.now() may yield.
Days == {0, 18486}
\* Date.now() is reached only from Consumer's constructor (through
\* TimeService.getCurrentDate); other constructions do not depend on the day.
DaysFor(cls) == IF cls = "Consumer" THEN Days ELSE {18486}
\* Date.prototype.toISOString for those days.
ISOString(d) ==
    CASE d = 0 -> "1970-01-01T00:00:00.000Z"
      [] d = 18486 -> "2020-08-12T00:00:00.000Z"

\* The result of a call: outcome, value, error and the heap afterwards.
CallReturn(v, h) == [outcome |-> "return", value |-> v, err |-> NoError, heap |-> h]
CallThrow(e, h) == [outcome |-> "throw", value |-> Undefined, err |-> e, heap |-> h]

\* recv.getCurrentDate() with no arguments.
GetCurrentDate(h, recv, now) ==
    IF recv.kind # "object"
    THEN CallThrow(NotAFunction("getCurrentDate"), h)
    ELSE LET o == h[recv.n]
         IN  CASE o.cls = "TimeService" -> CallReturn(DateOf(now), h)
               [] o.cls = "MockStr" ->
                    CallReturn(Str("2020-08-12"),
                               [h EXCEPT ![recv.n].calls = Append(@, <<>>)])
               [] o.cls = "MockDate" ->
                    CallReturn(DateOf(18486),
                               [h EXCEPT ![recv.n].calls = Append(@, <<>>)])
               [] OTHER -> CallThrow(NotAFunction("getCurrentDate"), h)

\* v.toISOString(): only a Date has the method.
ToISOString(v) ==
    IF v.kind = "date" THEN Return(Str(ISOString(v.n)))
    ELSE Throw(NotAFunction("toISOString"))

\* Mutant of InjectGetter: a direct key lookup in place of resolve.
InjectGetterLookup(ps, token) == Return(Prop(ps[Global], token))

\* The getter Inject installs: `get: () => container.resolve(token)`.
InjectGetter(ps, token) == ResolveIn(ps[Global], token)

\* Reading the decorated property slot of class cls (on an instance or on the
\* prototype): the getter when Inject was applied, else an unset field.
ReadSlot(ps, inj, cls) ==
    IF inj[cls] = NoToken THEN Return(Undefined) ELSE InjectGetter(ps, inj[cls])

\* Mutant of SlotSet: the descriptor has a setter that forwards the value to
\* the container under the slot's token.
SlotSetForwards(ps, inj, cls, v, strict) ==
    [outcome |-> "return", value |-> Undefined, err |-> NoError,
     providers |-> [ps EXCEPT ![Global][inj[cls]] = v]]

\* `obj.slot = v` on the Inject-decorated slot of class cls. The descriptor
\* passed to Object.defineProperty has `get` and no `set`, so the assignment
\* stores nothing: strict code gets a TypeError, sloppy code continues.
SlotSet(ps, inj, cls, v, strict) ==
    IF strict
    THEN [outcome |-> "throw", value |-> Undefined, err |-> NoSetter, providers |-> ps]
    ELSE [outcome |-> "return", value |-> Undefined, err |-> NoError, providers |-> ps]

\* The body of Consumer's constructor, on the new object at address a:
\* this.currentDate = this.timeService.getCurrentDate().toISOString()
ConsumerCtor(h, ps, inj, a, now) ==
    LET svc == ReadSlot(ps, inj, "Consumer")
    IN  IF svc.outcome = "throw" THEN CallThrow(svc.err, h)
        ELSE LET d == GetCurrentDate(h, svc.value, now)
             IN  IF d.outcome = "throw" THEN d
                 ELSE LET iso == ToISOString(d.value)
                      IN  IF iso.outcome = "throw" THEN CallThrow(iso.err, d.heap)
                          ELSE CallReturn(Ref(a),
                                   [d.heap EXCEPT ![a].currentDate = iso.value])

\* The body of Reader's constructor: reads this.dep and discards it.
ReaderCtor(h, ps, inj, a) ==
    LET dep == ReadSlot(ps, inj, "Reader")
    IN  IF dep.outcome = "throw" THEN CallThrow(dep.err, h) ELSE CallReturn(Ref(a), h)

\* `new target()`: allocate the object, run the constructor body with no
\* arguments; a throw leaves no object behind.
Construct(h, ps, inj, cls, now) ==
    LET a == Len(h) + 1
        h1 == Append(h, Obj(cls))
        r == CASE cls = "Consumer" -> ConsumerCtor(h1, ps, inj, a, now)
               [] cls = "Reader" -> ReaderCtor(h1, ps, inj, a)
               [] cls = "Thrower" -> CallThrow(CtorError, h1)
               [] OTHER -> CallReturn(Ref(a), h1)
    IN  IF r.outcome = "throw"
        THEN CallThrow(r.err, SubSeq(r.heap, 1, Len(h)))
        ELSE r

\* ------------------------------------------------------------------- state
VARIABLES
    providers,  \* providers[c]: the _providers object of Container c
    heap,       \* the objects allocated so far, by address
    injected,   \* injected[cls]: the token of the getter Inject installed, or NoToken
    ret,        \* the last operation, its arguments and its outcome
    hist,       \* hist[c][t]: the value the latest completed store put under t in c
    steps       \* number of state-changing operations so far

vars == <<providers, heap, injected, ret, hist, steps>>

NoOutcome == [outcome |-> "none", value |-> Undefined, err |-> NoError]
OutcomeOf(r) == [outcome |-> r.outcome, value |-> r.value, err |-> r.err]

\* The record of an operation: arg is the value argument (userValue), r the
\* outcome, made the object it constructed (or Undefined), ctors the
\* constructor invocations it made, resolves the tokens of the calls of
\* container.resolve made while it ran.
Ret(op, c, token, cls, arg, r, made, ctors) ==
    [op |-> op, c |-> c, token |-> token, cls |-> cls, arg |-> arg,
     outcome |-> r.outcome, value |-> r.value, err |-> r.err,
     made |-> made, ctors |-> ctors, reads |-> 0, prev |-> NoOutcome,
     resolves |-> <<>>]

\* The calls of container.resolve that one read of the property slot of class
\* cls makes: one, through the getter, when Inject was applied to the slot.
SlotResolves(inj, cls) ==
    IF cls \in DOMAIN inj /\ inj[cls] # NoToken THEN << inj[cls] >> ELSE <<>>

\* An observation leaves the containers and the getters as they are: a
\* resolve, a property read, an assignment to an injected property, or a
\* construction that threw.
IsObservation(r) == r.op \in {"resolve", "read", "assign"} \/ r.outcome = "throw"

\* Exploration bound: an observation is followed by a state-changing
\* operation, by its own repetition, or (an assignment) by a read of the
\* property assigned to, not by any other observation.
CanObserve(op, c, token, cls) ==
    IsObservation(ret) =>
        /\ ret.c = c /\ ret.token = token /\ ret.cls = cls
        /\ ret.op = op \/ (ret.op = "assign" /\ op = "read")

\* Values a caller already holds: primitives and references to live objects.
PrimitiveValues == {Undefined, Null, False, Num(0), Str(""), Num(2), Str("x")}
\* The primitives passed where the decorators are exercised as well: one
\* falsy non-number, zero, a positive integer and a non-empty string.
CorePrimitives == {Undefined, Num(0), Num(2), Str("x")}
\* The values assigned to an injected property: a falsy and a truthy one.
AssignedValues == {Num(0), Str("x")}
HeldValues(prims, h) == prims \cup {Ref(i) : i \in 1..Len(h)}

\* Module load of container.ts alone: `export const container = new
\* Container()`, and a second container a caller constructs.
InitFresh ==
    /\ providers = [c \in Containers |-> EmptyProviders]
    /\ heap = <<>>
    /\ injected = [cls \in InjectingClasses |-> NoToken]
    /\ hist = [c \in Containers |-> EmptyProviders]

\* Module load of the example module as well: @Injectable('timeService') on
\* TimeService, then @Inject('timeService') and @Injectable('consumer') on
\* Consumer, whose constructor ran at day `now`.
InitExample(now) ==
    LET registered == [EmptyProviders EXCEPT !["timeService"] = Ref(1),
                                             !["consumer"] = Ref(2)]
    IN  /\ providers = [c \in Containers |-> IF c = Global THEN registered ELSE EmptyProviders]
        /\ heap = << Obj("TimeService"),
                     [Obj("Consumer") EXCEPT !.currentDate = Str(ISOString(now))] >>
        /\ injected = [cls \in InjectingClasses |->
                          IF cls = "Consumer" THEN "timeService" ELSE NoToken]
        /\ hist = [c \in Containers |-> IF c = Global THEN registered ELSE EmptyProviders]

NoOperation == Ret("init", "-", "-", "-", Undefined, Return(Undefined), Undefined, <<>>)

\* The library alone, or the library with the example module loaded (on the
\* later of the days).
Init ==
    /\ InitFresh \/ InitExample(18486)
    /\ ret = NoOperation
    /\ steps = 0

\* The library alone.
InitContainers ==
    /\ InitFresh
    /\ ret = NoOperation
    /\ steps = 0

\* `this._providers[details.token] = details.userValue`
ProviderStore(ps, c, token, userValue) == [ps EXCEPT ![c][token] = userValue]

\* c.provider({token, userValue}); h is the heap once the caller has
\* evaluated the argument (a held value, or a fresh object literal).
Provider(c, token, userValue, h) ==
    /\ steps < MaxSteps
    /\ providers' = ProviderStore(providers, c, token, userValue)
    /\ hist' = [hist EXCEPT ![c][token] = userValue]
    /\ heap' = h
    /\ ret' = Ret("provider", c, token, "-", userValue, Return(Undefined), Undefined, <<>>)
    /\ steps' = steps + 1
    /\ UNCHANGED injected

\* c.provider with a value the caller already holds.
ProviderHeld(c, token, prims) ==
    \E v \in HeldValues(prims, heap) : Provider(c, token, v, heap)

\* c.provider with a new object literal (a test double).
ProviderLiteral(c, token) ==
    \E m \in MockKinds :
          Provider(c, token, Ref(Len(heap) + 1), Append(heap, Obj(m)))

\* The bounds on a construction with result r: a completed one counts as a
\* step; no mock records more than MaxCalls calls.
CanConstruct(r) ==
    /\ r.outcome = "return" => steps < MaxSteps
    /\ \A i \in 1..Len(r.heap) : Len(r.heap[i].calls) <= MaxCalls

\* Mutant of ReserveStore: an existing entry is kept (first registration wins).
ReserveStoreFirstWins(ps, c, token, r) ==
    IF r.outcome = "return" /\ ps[Global][token] = Absent
    THEN [ps EXCEPT ![Global][token] = r.value] ELSE ps

\* Mutant of ReserveStore: the key is created before the constructor runs, so
\* a throwing constructor leaves an undefined entry behind.
ReserveStoreKeyFirst(ps, c, token, r) ==
    [ps EXCEPT ![Global][token] = IF r.outcome = "return" THEN r.value ELSE Undefined]

\* `container._providers[token] = new target()` with r the result of
\* `new target()`: the assignment happens only when the constructor returned,
\* and always addresses the exported container, whatever `this` is.
ReserveStore(ps, c, token, r) ==
    IF r.outcome = "return" THEN [ps EXCEPT ![Global][token] = r.value] ELSE ps

\* c.reserve(token, target)
ReserveCall(op, c, token, target, now) ==
    LET r == Construct(heap, providers, injected, target, now)
        ctors == << [cls |-> target, args |-> <<>>] >>
    IN  /\ CanConstruct(r)
        /\ r.outcome = "throw" => CanObserve(op, c, token, target)
        /\ heap' = r.heap
        /\ steps' = IF r.outcome = "return" THEN steps + 1 ELSE steps
        /\ providers' = ReserveStore(providers, c, token, r)
        /\ hist' = IF r.outcome = "return"
                   THEN [hist EXCEPT ![Global][token] = r.value] ELSE hist
        /\ UNCHANGED injected
        /\ ret' = [ (IF r.outcome = "return"
                      THEN Ret(op, c, token, target, Undefined, Return(Undefined), r.value, ctors)
                      ELSE Ret(op, c, token, target, Undefined, Throw(r.err), Undefined, ctors))
                       EXCEPT !.resolves = SlotResolves(injected, target) ]

Reserve(c, token, target) ==
    \E now \in DaysFor(target) : ReserveCall("reserve", c, token, target, now)

\* @Injectable(token) on class target: `container.reserve(token, target)`.
Injectable(token, target) ==
    \E now \in DaysFor(target) : ReserveCall("injectable", Global, token, target, now)

\* @Inject(token) on the property slot of class cls: Object.defineProperty
\* installs the getter; nothing is resolved.
Inject(cls, token) ==
    /\ steps < MaxSteps
    /\ injected' = [injected EXCEPT ![cls] = token]
    /\ ret' = Ret("inject", "-", token, cls, Undefined, Return(Undefined), Undefined, <<>>)
    /\ steps' = steps + 1
    /\ UNCHANGED <<providers, heap, hist>>

\* c.resolve(token). reads counts the consecutive calls with these
\* arguments and prev records the outcome of the call just before.
Resolve(c, token) ==
    LET again == ret.op = "resolve" /\ ret.c = c /\ ret.token = token
    IN  /\ CanObserve("resolve", c, token, "-")
        /\ again => ret.reads < MaxReads
        /\ providers' = ResolveEffect(providers, c, token)
        /\ ret' = [Ret("resolve", c, token, "-", Undefined, ResolveIn(providers[c], token), Undefined, <<>>)
                     EXCEPT !.reads = IF again THEN ret.reads + 1 ELSE 1,
                            !.prev = IF again THEN OutcomeOf(ret) ELSE NoOutcome,
                            !.resolves = << token >>]
        /\ UNCHANGED <<heap, injected, hist, steps>>

\* A read of the Inject-decorated property of class cls. prev records the
\* outcome of the read just before it or, after an assignment to the
\* property, what the property yielded before that assignment.
ReadProperty(cls) ==
    LET again == ret.op = "read" /\ ret.cls = cls
        assigned == ret.op = "assign" /\ ret.cls = cls
        r == ReadSlot(providers, injected, cls)
    IN  /\ injected[cls] # NoToken
        /\ CanObserve("read", Global, injected[cls], cls)
        /\ again => ret.reads < MaxReads
        /\ providers' = ResolveEffect(providers, Global, injected[cls])
        /\ ret' = [Ret("read", Global, injected[cls], cls, Undefined, r, Undefined, <<>>)
                     EXCEPT !.reads = IF again THEN ret.reads + 1 ELSE 1,
                            !.prev = IF again THEN OutcomeOf(ret)
                                     ELSE IF assigned THEN ret.prev ELSE NoOutcome,
                            !.resolves = SlotResolves(injected, cls)]
        /\ UNCHANGED <<heap, injected, hist, steps>>

\* User code `obj.slot = v` on the Inject-decorated property of class cls,
\* from strict or from sloppy code. prev records what the property yielded
\* before the assignment.
AssignProperty(cls, v, strict) ==
    LET r == SlotSet(providers, injected, cls, v, strict)
    IN  /\ injected[cls] # NoToken
        /\ CanObserve("assign", Global, injected[cls], cls)
        /\ providers' = r.providers
        /\ ret' = [Ret("assign", Global, injected[cls], cls, v, r, Undefined, <<>>)
                     EXCEPT !.prev = ReadSlot(providers, injected, cls)]
        /\ UNCHANGED <<heap, injected, hist, steps>>

\* User code `new cls()`.
New(cls) ==
    \E now \in DaysFor(cls) :
        LET r == Construct(heap, providers, injected, cls, now)
        IN  /\ CanConstruct(r)
            /\ r.outcome = "throw" => CanObserve("new", "-", "-", cls)
            /\ heap' = r.heap
            /\ ret' = [Ret("new", "-", "-", cls, Undefined, OutcomeOf(r),
                           IF r.outcome = "return" THEN r.value ELSE Undefined,
                           << [cls |-> cls, args |-> <<>>] >>)
                         EXCEPT !.resolves = SlotResolves(injected, cls)]
            /\ steps' = IF r.outcome = "return" THEN steps + 1 ELSE steps
            /\ UNCHANGED <<providers, injected, hist>>

\* The decorators and the shared container.
DoProviderHeld == \E t \in Tokens : ProviderHeld(Global, t, CorePrimitives)
DoProviderLiteral == \E t \in Tokens : ProviderLiteral(Global, t)
DoReserve == \E t \in Tokens, target \in {"TimeService", "Thrower"} : Reserve(Global, t, target)
DoInjectable == \E t \in Tokens, target \in Classes \ {"User"} : Injectable(t, target)
DoInject == \E cls \in InjectingClasses, t \in Tokens : Inject(cls, t)
DoResolve == \E t \in Tokens : Resolve(Global, t)
DoReadProperty == \E cls \in InjectingClasses : ReadProperty(cls)
DoNew == \E cls \in Classes \ {"User"} : New(cls)
DoAssignProperty ==
    \E cls \in InjectingClasses, v \in AssignedValues, strict \in BOOLEAN :
        AssignProperty(cls, v, strict)

Next ==
    \/ DoProviderHeld
    \/ DoProviderLiteral
    \/ DoReserve
    \/ DoInjectable
    \/ DoInject
    \/ DoResolve
    \/ DoReadProperty
    \/ DoNew
    \/ DoAssignProperty

Spec == Init /\ [][Next]_vars

\* The Container methods on the shared container and on a second one.
CallProvider == \E c \in Containers, t \in Tokens : ProviderHeld(c, t, PrimitiveValues)
CallReserve == \E c \in Containers, t \in Tokens, target \in {"User", "Thrower"} : Reserve(c, t, target)
CallResolve == \E c \in Containers, t \in Tokens : Resolve(c, t)

NextContainers ==
    \/ CallProvider
    \/ CallReserve
    \/ CallResolve

SpecContainers == InitContainers /\ [][NextContainers]_vars

\* ------------------------------------------------------------------ claims
\* The step just taken is operation op and it completed (it returned and
\* counted as a state-changing step).
Completed(op) == ret'.op = op /\ ret'.outcome = "return" /\ steps' = steps + 1

\* The step just taken is a read of an Inject-decorated property.
ReadStep == ret'.op = "read" /\ UNCHANGED <<providers, heap, injected, hist, steps>>

\* The step just taken is a call of c.resolve(token).
ResolveStep == ret'.op = "resolve" /\ UNCHANGED <<providers, heap, injected, hist, steps>>

\* C1: after override(t, v) -- provider({token: t, userValue: v}) -- the next
\* resolve(t) on the same container returns exactly v and does not throw,
\* for every value v, the falsy ones included.
C1_OverrideThenResolveReturns ==
    [][ (ret.op = "provider" /\ ResolveStep /\ ret'.c = ret.c /\ ret'.token = ret.token)
          => (ret'.outcome = "return" /\ ret'.value = ret.arg) ]_vars

\* C2: with the example module loaded (TimeService registered under
\* 'timeService', Consumer's property injected from it), after the single
\* operation override('timeService', mock) with a mock whose getCurrentDate
\* returns the string '2020-08-12', constructing Consumer completes, its
\* currentDate is exactly '2020-08-12' and the mock was called exactly once
\* with no arguments.
C2_ConsumerTakesMockDate ==
    [][ ( /\ ret.op = "provider" /\ ret.c = Global /\ ret.token = "timeService"
          /\ ret.arg.kind = "object" /\ heap[ret.arg.n].cls = "MockStr"
          /\ steps = 1 /\ Len(heap) = 3 /\ heap[1].cls = "TimeService"
          /\ injected["Consumer"] = "timeService"
          /\ ret'.op = "new" /\ ret'.cls = "Consumer" )
          => ( /\ ret'.outcome = "return"
               /\ ret'.made.kind = "object"
               /\ heap'[ret'.made.n].currentDate = Str("2020-08-12")
               /\ heap'[ret.arg.n].calls = << <<>> >> ) ]_vars

\* C3: resolve(t) on a container in which no register or override has ever
\* stored an entry for t fails with the ProviderNotFound error, whose message
\* contains the token t.
C3_UnregisteredTokenNotFound ==
    (ret.op = "resolve" /\ hist[ret.c][ret.token] = Absent)
        => /\ ret.outcome = "throw"
           /\ ret.err.name = "Error"
           /\ ret.err.msg[1] = "No provider found for "
           /\ \E i \in 1..Len(ret.err.msg) : ret.err.msg[i] = ret.token

\* C3 witness: a token without an entry was resolved, and failed, on a
\* container that holds an entry for another token.
C3_Witness ==
    /\ ret.op = "resolve" /\ hist[ret.c][ret.token] = Absent
    /\ ret.outcome = "throw"
    /\ \E u \in Tokens : u # ret.token /\ Truthy(providers[ret.c][u])

\* C4: register(t, C) called on any Container c, with a constructor that
\* does not throw, invokes the constructor once with no arguments, stores the
\* instance under t in c itself so that c.resolve(t) returns it, and leaves
\* the entries of every other Container unchanged.
C4_ReserveStoresInReceiver ==
    [][ Completed("reserve")
          => ( /\ ret'.ctors = << [cls |-> ret'.cls, args |-> <<>>] >>
               /\ providers'[ret'.c][ret'.token] = ret'.made
               /\ \A d \in Containers \ {ret'.c} : providers'[d] = providers[d] ) ]_vars

\* C5: on the shared container, resolve(t) returns the value stored by the
\* most recent register or override on t.
C5_LastWriteWins ==
    (ret.op = "resolve" /\ ret.c = Global /\ hist[Global][ret.token] # Absent)
        => (ret.outcome = "return" /\ ret.value = hist[Global][ret.token])

\* C6: a read of a property decorated with Inject(t) that follows
\* override(t, v) yields v.
C6_ReadAfterOverrideYieldsValue ==
    [][ ( /\ ret.op = "provider" /\ ret.c = Global
          /\ ReadStep /\ ret'.token = ret.token )
          => (ret'.outcome = "return" /\ ret'.value = ret.arg) ]_vars

\* C7: consecutive reads of a property decorated with Inject(t), with no
\* register or override in between, all have the same result (the same
\* object when an object is stored), and each is what container.resolve(t)
\* gives at that time.
C7_ConsecutiveReadsAgree ==
    ret.op = "read"
        => /\ OutcomeOf(ret) = ResolveIn(providers[Global], ret.token)
           /\ ret.reads > 1 => ret.prev = OutcomeOf(ret)

\* C7 witness: the second of two consecutive reads returned the stored object.
C7_Witness ==
    /\ ret.op = "read" /\ ret.reads = 2
    /\ ret.outcome = "return" /\ ret.value.kind = "object"
    /\ ret.value = hist[Global][ret.token]
    /\ ret.prev.outcome = "return"

\* C8: Injectable(t) on class C constructs exactly one instance of C and
\* stores it under t in the shared container, changing no other entry; a
\* later `new C()` creates a distinct instance that is stored nowhere and
\* leaves every entry, and so every resolve, as it was.
C8_OnlyAnnotationInstanceIsStored ==
    [][ /\ Completed("injectable")
            => /\ ret'.ctors = << [cls |-> ret'.cls, args |-> <<>>] >>
               /\ Len(heap') = Len(heap) + 1
               /\ ret'.made = Ref(Len(heap'))
               /\ heap'[Len(heap')].cls = ret'.cls
               /\ providers'[Global][ret'.token] = ret'.made
               /\ \A c \in Containers, t \in Tokens :
                     (c # Global \/ t # ret'.token) => providers'[c][t] = providers[c][t]
        /\ Completed("new")
            => /\ Len(heap') = Len(heap) + 1
               /\ ret'.made = Ref(Len(heap'))
               /\ providers' = providers
               /\ \A c \in Containers, t \in Tokens : providers'[c][t] # ret'.made
               /\ \A t \in Tokens :
                     ResolveIn(providers'[Global], t) = ResolveIn(providers[Global], t)
      ]_vars

\* C8 witness: starting from the library alone, a class was registered and
\* then constructed again by user code; resolve still gives the registered
\* instance, a different object from the new one.
C8_Witness ==
    /\ injected["Consumer"] = NoToken
    /\ ret.op = "new" /\ ret.outcome = "return"
    /\ \E t \in Tokens :
          /\ providers[Global][t].kind = "object"
          /\ heap[providers[Global][t].n].cls = ret.cls
          /\ providers[Global][t] # ret.made
          /\ ResolveIn(providers[Global], t) = Return(providers[Global][t])

\* C9: when the constructor throws during register(t, C) or Injectable(t),
\* the caller gets that same error and every container is left as it was.
C9_ThrowingConstructorLeavesContainer ==
    [][ (ret'.op \in {"reserve", "injectable"} /\ ret'.outcome = "throw")
          => /\ providers' = providers
             /\ \E now \in Days :
                   LET r == Construct(heap, providers, injected, ret'.cls, now)
                   IN  r.outcome = "throw" /\ ret'.err = r.err
             /\ \A t \in Tokens :
                   ResolveIn(providers'[Global], t) = ResolveIn(providers[Global], t)
      ]_vars

\* C9 witness: a registration under a token failed in the constructor and
\* the entry stored earlier under that token is still what resolve returns.
C9_Witness ==
    /\ ret.op \in {"reserve", "injectable"} /\ ret.outcome = "throw"
    /\ ret.err = CtorError
    /\ hist[Global][ret.token] # Absent
    /\ ResolveIn(providers[Global], ret.token) = Return(hist[Global][ret.token])

\* C10: for a class A with a property decorated with Inject(b) that its
\* constructor reads, Injectable(a) on A fails with ProviderNotFound for b and
\* registers nothing while b has no entry, and succeeds and registers A under
\* a once b has been registered or overridden.
C10_DeclarationOrder ==
    [][ ( /\ ret'.op = "injectable" /\ ret'.cls = "Reader"
          /\ injected["Reader"] # NoToken )
          => LET b == injected["Reader"]
             IN  /\ hist[Global][b] = Absent
                    => /\ ret'.outcome = "throw"
                       /\ ret'.err = ProviderNotFound(b)
                       /\ providers' = providers
                 /\ hist[Global][b] # Absent
                    => /\ ret'.outcome = "return"
                       /\ ret'.made.kind = "object"
                       /\ providers'[Global][ret'.token] = ret'.made
      ]_vars

\* The previous operation completed a store under its token in the shared
\* container: a register, an Injectable or an override.
StoredLast ==
    /\ ret.op \in {"provider", "reserve", "injectable"}
    /\ ret.outcome = "return"
    /\ providers[Global][ret.token] = hist[Global][ret.token]
    /\ hist[Global][ret.token] # Absent

\* C11: applying Inject(t) to a property returns without an error and makes
\* no call of resolve, whether or not t has an entry; while t has no entry a
\* read of the property fails with ProviderNotFound for t; and a read that
\* follows a later register or override of t succeeds.
C11_InjectIsLazy ==
    [][ /\ ret'.op = "inject"
            => /\ ret'.outcome = "return"
               /\ ret'.resolves = <<>>
               /\ providers' = providers /\ heap' = heap
        /\ (ReadStep /\ hist[Global][ret'.token] = Absent)
            => /\ ret'.outcome = "throw"
               /\ ret'.err = ProviderNotFound(ret'.token)
        /\ (StoredLast /\ ReadStep /\ ret'.token = ret.token)
            => ret'.outcome = "return"
      ]_vars

\* C12: an assignment to a property decorated with Inject(t) is either
\* ignored or raises a TypeError; either way the entries of every container
\* and the result of every resolve stay as they were, and a read of the
\* property after it yields what the property yielded before it, which is
\* what container.resolve(t) gives.
C12_AssignmentChangesNothing ==
    [][ /\ ret'.op = "assign"
            => /\ \/ ret'.outcome = "return"
                  \/ ret'.outcome = "throw" /\ ret'.err.name = "TypeError"
               /\ providers' = providers /\ heap' = heap /\ injected' = injected
               /\ \A t \in Tokens :
                     ResolveIn(providers'[Global], t) = ResolveIn(providers[Global], t)
        /\ (ret.op = "assign" /\ ret'.op = "read" /\ ret'.cls = ret.cls)
            => /\ OutcomeOf(ret') = ret.prev
               /\ OutcomeOf(ret') = ResolveIn(providers'[Global], ret.token)
               /\ ret'.prev = ret.prev
      ]_vars

\* C12 witness: a read that followed an assignment of another value to the
\* property returned the object the container holds, as before the assignment.
C12_Witness ==
    /\ ret.op = "read" /\ ret.reads = 1 /\ ret.prev.outcome = "return"
    /\ ret.outcome = "return" /\ ret.value.kind = "object"
    /\ ret.value = providers[Global][ret.token]
    /\ ret.value = ret.prev.value

\* The step just taken completed a register, an Injectable or an override.
StoreStep ==
    /\ ret'.op \in {"provider", "reserve", "injectable"}
    /\ ret'.outcome = "return"
    /\ steps' = steps + 1

\* C13: a register or an override on token t, with any token string
\* ('length' included) and any value (non-negative integers included),
\* leaves the outcome of resolve(u) unchanged for every other token u, on
\* every container: the same value when it returned, still ProviderNotFound
\* when it failed.
C13_TokensAreIndependent ==
    [][ StoreStep
          => \A c \in Containers, u \in Tokens \ {ret'.token} :
                ResolveIn(providers'[c], u) = ResolveIn(providers[c], u) ]_vars

\* C14: a call of resolve(t), returning or throwing, and a read of an
\* Inject-decorated property leave every container's entries as they were
\* and invoke no constructor; a resolve(t) repeated right after has the same
\* outcome: it fails again, or returns the same identity again.
C14_ResolveIsReadOnly ==
    [][ /\ ret'.op \in {"resolve", "read"}
            => /\ providers' = providers
               /\ heap' = heap
               /\ injected' = injected
               /\ ret'.ctors = <<>> /\ ret'.made = Undefined
        /\ ( /\ ret.op = "resolve" /\ ret'.op = "resolve"
              /\ ret'.c = ret.c /\ ret'.token = ret.token )
            => /\ OutcomeOf(ret') = OutcomeOf(ret)
               /\ ret'.prev = OutcomeOf(ret)
      ]_vars

\* C14 witness: the second of two consecutive calls of resolve(t) returned
\* the stored object that the first call returned.
C14_Witness ==
    /\ ret.op = "resolve" /\ ret.reads = 2
    /\ ret.outcome = "return" /\ ret.value.kind = "object"
    /\ ret.prev = OutcomeOf(ret)
    /\ providers[ret.c][ret.token] = ret.value

====
